---- MODULE Spec2Model ----
(***************************************************************************)
(* Model of the three snapraid exporters (diff_exporter.py,                *)
(* smart_exporter.py, status_exporter.py): the text parsers, the           *)
(* Prometheus formatters and the main() pipelines that persist the         *)
(* rendering with a temp file and a rename.                                *)
(*                                                                         *)
(* A text is a sequence of symbols.  A symbol is one character (a digit,   *)
(* " ", "\n", "%", ".", "-") or a word that the code only ever looks at    *)
(* as a whole ("added", "No", "differences", "The FP column", ...).        *)
(***************************************************************************)
EXTENDS Integers, Sequences, FiniteSets, TLC

VARIABLES
    pkind, ptext, presult,      \* a parser under test: which, its input, its result
    pc,                         \* where each run of main() is
    env,                        \* what acquisition will give each run
    snapraid_output,            \* main(): snapraid_output
    metrics,                    \* main(): metrics
    failed,                     \* the persistence step that failed in the run
    raised,                     \* the exception that left main(), "" when none
    touched,                    \* the file system calls the run has made
    prior,                      \* the final files as they were before the runs
    dir,                        \* the output directory exists
    fs,                         \* the files of the output directory
    fd,                         \* the file each run holds open, and its offset
    scraped                     \* what the metrics scraper read last

pvars == <<pkind, ptext, presult>>
mvars == <<pc, env, snapraid_output, metrics, failed, raised, touched, prior, dir, fs,
           fd, scraped>>
vars == <<pkind, ptext, presult,
          pc, env, snapraid_output, metrics, failed, raised, touched, prior, dir, fs,
          fd, scraped>>

Kinds == {"diff", "smart", "status"}

\* Python's None where the other values are integers.
None == -1

\* Python's None where the other values are strings or tuples (never empty).
NoMatch == <<>>

-----------------------------------------------------------------------------
(* str primitives *)

Digits == <<"0", "1", "2", "3", "4", "5", "6", "7", "8", "9">>

DigitSet == {"0", "1", "2", "3", "4", "5", "6", "7", "8", "9"}

IsDigit(c) == c \in DigitSet

DigitVal(c) == (CHOOSE d \in 1..10 : Digits[d] = c) - 1

SpaceSet == {" ", "\n", "\t"}

IsSpace(c) == c \in SpaceSet

Min(S) == CHOOSE x \in S : \A y \in S : x <= y

Max(S) == CHOOSE x \in S : \A y \in S : x >= y

\* s[a..b], empty when a > b
Slice(s, a, b) == IF a > b THEN <<>> ELSE SubSeq(s, a, b)

\* first position at or after i that holds no whitespace (Len(s) + 1 when none)
RECURSIVE SkipSpace(_, _)
SkipSpace(s, i) == IF i <= Len(s) /\ IsSpace(s[i]) THEN SkipSpace(s, i + 1) ELSE i

\* last position at or before i that holds no whitespace (0 when none)
RECURSIVE SkipSpaceBack(_, _)
SkipSpaceBack(s, i) == IF i >= 1 /\ IsSpace(s[i]) THEN SkipSpaceBack(s, i - 1) ELSE i

\* str.strip(): drop leading and trailing whitespace
Strip(s) == Slice(s, SkipSpace(s, 1), SkipSpaceBack(s, Len(s)))

\* str.rstrip('%')
RStripPercent(s) ==
    LET keep == {i \in 1..Len(s) : s[i] # "%"}
    IN  IF keep = {} THEN <<>> ELSE SubSeq(s, 1, Max(keep))

\* str.split(sep): always at least one piece, pieces may be empty
RECURSIVE SplitOn(_, _)
SplitOn(s, sep) ==
    LET at == {i \in 1..Len(s) : s[i] = sep}
    IN  IF at = {} THEN <<s>>
        ELSE <<Slice(s, 1, Min(at) - 1)>>
                 \o SplitOn(Slice(s, Min(at) + 1, Len(s)), sep)

\* str.split(): split on runs of whitespace, no empty pieces
RECURSIVE SplitWS(_)
SplitWS(s) ==
    LET t == Strip(s)
        ws == {i \in 1..Len(t) : IsSpace(t[i])}
    IN  IF t = <<>> THEN <<>>
        ELSE IF ws = {} THEN <<t>>
        ELSE <<Slice(t, 1, Min(ws) - 1)>> \o SplitWS(Slice(t, Min(ws) + 1, Len(t)))

\* s[i:].startswith(pre), positions from 1
StartsWithAt(s, i, pre) ==
    i + Len(pre) - 1 <= Len(s) /\ \A k \in 1..Len(pre) : s[i + k - 1] = pre[k]

\* str.startswith(pre)
StartsWith(s, pre) == StartsWithAt(s, 1, pre)

\* pat in s
Contains(s, pat) ==
    \/ pat = <<>>
    \/ \E i \in 1..Len(s) : s[i] = pat[1] /\ StartsWithAt(s, i, pat)

\* str.isdigit()
IsDigitStr(s) == Len(s) > 0 /\ \A i \in 1..Len(s) : IsDigit(s[i])

\* value of a run of decimal digits
RECURSIVE DigitsValue(_)
DigitsValue(s) ==
    IF s = <<>> THEN 0
    ELSE 10 * DigitsValue(SubSeq(s, 1, Len(s) - 1)) + DigitVal(s[Len(s)])

\* int(s) succeeds: optional sign, then digits only
IntOk(s) ==
    \/ IsDigitStr(s)
    \/ Len(s) > 1 /\ s[1] \in {"-", "+"} /\ IsDigitStr(Tail(s))

IntOf(s) ==
    IF IsDigitStr(s) THEN DigitsValue(s)
    ELSE IF s[1] = "-" THEN 0 - DigitsValue(Tail(s)) ELSE DigitsValue(Tail(s))

\* float(s) succeeds: optional sign, digits with at most one ".", one digit at least
FloatOk(s) ==
    LET u == IF Len(s) > 0 /\ s[1] \in {"-", "+"} THEN Tail(s) ELSE s
        dots == {i \in 1..Len(u) : u[i] = "."}
    IN  /\ \A i \in 1..Len(u) : IsDigit(u[i]) \/ u[i] = "."
        /\ Cardinality(dots) <= 1
        /\ \E i \in 1..Len(u) : IsDigit(u[i])

\* float(s) as a decimal: mant / 10^frac
FloatOf(s) ==
    LET neg == s[1] = "-"
        u == IF s[1] \in {"-", "+"} THEN Tail(s) ELSE s
        dots == {i \in 1..Len(u) : u[i] = "."}
        d == IF dots = {} THEN Len(u) + 1 ELSE Min(dots)
        m == DigitsValue(Slice(u, 1, d - 1) \o Slice(u, d + 1, Len(u)))
    IN  [mant |-> IF neg THEN 0 - m ELSE m,
         frac |-> IF dots = {} THEN 0 ELSE Len(u) - d]

Float0 == [mant |-> 0, frac |-> 0]

RECURSIVE Pow10(_)
Pow10(n) == IF n = 0 THEN 1 ELSE 10 * Pow10(n - 1)

\* int(x * 1e<e>) of a decimal x, as the integer mant * 10^e10 (a byte count
\* does not fit the integers of the model checker)
ScaleTrunc(x, e) ==
    IF x.frac <= e THEN [mant |-> x.mant, e10 |-> e - x.frac]
    ELSE [mant |-> x.mant \div Pow10(x.frac - e), e10 |-> 0]

\* end of the run of symbols satisfying a class that starts at i (i - 1 when empty)
RECURSIVE DigitRunEnd(_, _)
DigitRunEnd(s, i) ==
    IF i <= Len(s) /\ IsDigit(s[i]) THEN DigitRunEnd(s, i + 1) ELSE i - 1

RECURSIVE SpaceRunEnd(_, _)
SpaceRunEnd(s, i) ==
    IF i <= Len(s) /\ IsSpace(s[i]) THEN SpaceRunEnd(s, i + 1) ELSE i - 1

-----------------------------------------------------------------------------
(* diff_exporter.py: parser *)

Categories == <<"equal", "added", "removed", "updated", "moved", "copied", "restored">>

DiffMetrics ==
    [equal |-> 0, added |-> 0, removed |-> 0, updated |-> 0, moved |-> 0,
     copied |-> 0, restored |-> 0, has_differences |-> FALSE]

\* re.search(r'(\d+)\s+<kw>', line): int(group(1)) of the leftmost match, or None
SearchCount(line, kw) ==
    LET hit(i) == IsDigit(line[i]) /\
                  LET j == DigitRunEnd(line, i)
                      k == SpaceRunEnd(line, j + 1)
                  IN  k > j /\ k + 1 <= Len(line) /\ line[k + 1] = kw
        starts == {i \in 1..Len(line) : hit(i)}
    IN  IF starts = {} THEN None
        ELSE DigitsValue(SubSeq(line, Min(starts), DigitRunEnd(line, Min(starts))))

RECURSIVE ApplyPatterns(_, _, _)
ApplyPatterns(line, m, c) ==
    IF c > Len(Categories) THEN m
    ELSE LET v == SearchCount(line, Categories[c])
         IN  ApplyPatterns(line,
                           IF v # None THEN [m EXCEPT ![Categories[c]] = v] ELSE m,
                           c + 1)

parse_diff_line(line, m) == ApplyPatterns(Strip(line), m, 1)

RECURSIVE DiffLines(_, _, _)
DiffLines(lines, i, m) ==
    IF i > Len(lines) THEN m
    ELSE DiffLines(lines, i + 1, parse_diff_line(lines[i], m))

NoDifferences == <<"No", " ", "differences">>

\* the patterns searched in the whole text instead of line by line
diff_parse_whole_text(output) ==
    LET m == ApplyPatterns(Strip(output), DiffMetrics, 1)
    IN  [m EXCEPT !.has_differences = ~Contains(output, NoDifferences)]

\* has_differences from the lines: some count is not zero
diff_parse_counts_decide(output) ==
    LET m == DiffLines(SplitOn(Strip(output), "\n"), 1, DiffMetrics)
    IN  [m EXCEPT !.has_differences =
             \E c \in 1..Len(Categories) : c > 1 /\ m[Categories[c]] # 0]

diff_parse_snapraid_output(output) ==
    LET m == DiffLines(SplitOn(Strip(output), "\n"), 1, DiffMetrics)
    IN  [m EXCEPT !.has_differences = ~Contains(output, NoDifferences)]

(* diff_exporter.py: formatter.  A rendering is the sequence of the lines  *)
(* that "\n".join produces; <<>> is the blank line in front of a block.    *)

Help(name) == <<"# HELP", name>>

Type(name, t) == <<"# TYPE", name, t>>

Sample(name, labels, value) == <<name, labels, value>>

Blank == <<>>

BoolInt(b) == IF b THEN 1 ELSE 0

diff_generate_prometheus_metrics(m) ==
    <<Help("snapraid_diff_files_total"), Type("snapraid_diff_files_total", "gauge")>>
    \o [c \in 1..Len(Categories) |->
           Sample("snapraid_diff_files_total", <<<<"state", Categories[c]>>>>,
                  m[Categories[c]])]
    \o <<Blank, Help("snapraid_diff_has_differences"),
         Type("snapraid_diff_has_differences", "gauge"),
         Sample("snapraid_diff_has_differences", <<>>, BoolInt(m.has_differences))>>

-----------------------------------------------------------------------------
(* smart_exporter.py: parser *)

SmartHeaderLines == 3

MinSmartParts == 8

Dashes == <<"-", "-", "-", "-">>

Sentinel == <<"-">>

FPColumn == <<"The FP column">>

FailNextYear == <<"fail in the next year is">>

\* parse_size_tb
parse_size_tb(size_str) ==
    IF size_str = <<>> \/ size_str = Sentinel THEN Float0 ELSE FloatOf(size_str)

\* the try body of the row loop raises ValueError
SmartRowRaises(parts) ==
    \/ parts[4] # Sentinel /\ ~FloatOk(RStripPercent(parts[4]))
    \/ ~(parts[5] = <<>> \/ parts[5] = Sentinel) /\ ~FloatOk(parts[5])

SmartRow(parts) ==
    [temperature |-> IF IsDigitStr(parts[1]) THEN IntOf(parts[1]) ELSE 0,
     power_days  |-> IF IsDigitStr(parts[2]) THEN IntOf(parts[2]) ELSE 0,
     error_count |-> IF IsDigitStr(parts[3]) THEN IntOf(parts[3]) ELSE 0,
     failure_prob |-> IF parts[4] # Sentinel THEN FloatOf(RStripPercent(parts[4]))
                      ELSE Float0,
     size_tb |-> parse_size_tb(parts[5]),
     serial |-> parts[6],
     device |-> parts[7],
     name |-> parts[8]]

\* a unit kept as soon as one of device and serial is known
SmartIncluded_either(parts) == parts[7] # Sentinel \/ parts[6] # Sentinel

\* "if device != '-' and serial != '-'"
SmartIncluded(parts) == parts[7] # Sentinel /\ parts[6] # Sentinel

\* the body of "for line in lines" from line i on; disks is the list so far
RECURSIVE SmartRows(_, _, _)
SmartRows(lines, i, disks) ==
    IF i > Len(lines) THEN disks
    ELSE IF StartsWith(lines[i], Dashes) THEN SmartRows(lines, i + 1, disks)
    ELSE IF StartsWith(lines[i], FPColumn) THEN disks
    ELSE LET parts == SplitWS(Strip(lines[i]))
         IN  IF Len(parts) >= MinSmartParts /\ ~SmartRowRaises(parts)
                /\ SmartIncluded(parts)
             THEN SmartRows(lines, i + 1, Append(disks, SmartRow(parts)))
             ELSE SmartRows(lines, i + 1, disks)

\* re.search(r"(\d+(?:\.\d+)?)%", line): group(1) of the leftmost match, or None
SearchPercent(line) ==
    LET j(i) == DigitRunEnd(line, i)
        k(i) == DigitRunEnd(line, j(i) + 2)
        long(i) == /\ j(i) >= i /\ j(i) + 1 <= Len(line) /\ line[j(i) + 1] = "."
                   /\ k(i) >= j(i) + 2 /\ k(i) + 1 <= Len(line) /\ line[k(i) + 1] = "%"
        short(i) == j(i) >= i /\ j(i) + 1 <= Len(line) /\ line[j(i) + 1] = "%"
        starts == {i \in 1..Len(line) : long(i) \/ short(i)}
        a == Min(starts)
    IN  IF starts = {} THEN NoMatch
        ELSE IF long(a) THEN SubSeq(line, a, k(a)) ELSE SubSeq(line, a, j(a))

ArrayFailureProb(lines) ==
    LET at == {i \in 1..Len(lines) : Contains(lines[i], FailNextYear)}
        g == SearchPercent(lines[Min(at)])
    IN  IF at = {} THEN Float0
        ELSE IF g = NoMatch THEN Float0 ELSE FloatOf(g)

smart_parse_snapraid_output(output) ==
    LET all == SplitOn(Strip(output), "\n")
        lines == Slice(all, SmartHeaderLines + 1, Len(all))
    IN  [disks |-> SmartRows(lines, 1, <<>>),
         array_failure_prob |-> ArrayFailureProb(lines)]

(* smart_exporter.py: formatter *)

SmartLabels(d) == <<<<"device", d.device>>, <<"serial", d.serial>>, <<"name", d.name>>>>

TBExp == 12

\* one sample per disk, in list order; positive_only is the "if disk.x > 0" of
\* the temperature and power-on families
SmartFamily(name, disks, field, positive_only) ==
    LET emit(d) == ~positive_only \/ d[field] > 0
        keep == SelectSeq(disks, emit)
    IN  [n \in 1..Len(keep) |->
            Sample(name, SmartLabels(keep[n]),
                   IF field = "size_tb" THEN ScaleTrunc(keep[n].size_tb, TBExp)
                   ELSE keep[n][field])]

smart_generate_prometheus_metrics(disks, array_failure_prob) ==
    <<Help("snapraid_disk_temperature_celsius"),
      Type("snapraid_disk_temperature_celsius", "gauge")>>
    \o SmartFamily("snapraid_disk_temperature_celsius", disks, "temperature", TRUE)
    \o <<Blank, Help("snapraid_disk_power_on_days"),
         Type("snapraid_disk_power_on_days", "counter")>>
    \o SmartFamily("snapraid_disk_power_on_days", disks, "power_days", TRUE)
    \o <<Blank, Help("snapraid_disk_error_count"),
         Type("snapraid_disk_error_count", "counter")>>
    \o SmartFamily("snapraid_disk_error_count", disks, "error_count", FALSE)
    \o <<Blank, Help("snapraid_disk_failure_probability_percent"),
         Type("snapraid_disk_failure_probability_percent", "gauge")>>
    \o SmartFamily("snapraid_disk_failure_probability_percent", disks, "failure_prob", FALSE)
    \o <<Blank, Help("snapraid_disk_size_bytes"),
         Type("snapraid_disk_size_bytes", "gauge")>>
    \o SmartFamily("snapraid_disk_size_bytes", disks, "size_tb", FALSE)
    \o <<Blank, Help("snapraid_array_failure_probability_percent"),
         Type("snapraid_array_failure_probability_percent", "gauge"),
         Sample("snapraid_array_failure_probability_percent", <<>>,
                array_failure_prob)>>

-----------------------------------------------------------------------------
(* status_exporter.py: parser *)

DiskParts == 8

MinTotalsParts == 8

NameWord == <<"Name">>

FilesFragmented == <<"Files", " ", "Fragmented">>

ArrayMetrics0 ==
    [total_files |-> 0, total_fragmented |-> 0, total_excess |-> 0,
     total_used_gb |-> Float0, total_free_gb |-> Float0, total_use_percent |-> Float0]

\* the six conversions of a table row all succeed
RowNumbersOk(parts) ==
    /\ IntOk(parts[1]) /\ IntOk(parts[2]) /\ IntOk(parts[3])
    /\ FloatOk(parts[5]) /\ FloatOk(parts[6]) /\ FloatOk(RStripPercent(parts[7]))

\* rows of 8 tokens or more accepted
parse_disk_line_at_least(line) ==
    LET parts == SplitWS(Strip(line))
    IN  IF Len(parts) >= DiskParts /\ parts[Len(parts)] \notin {Sentinel, NameWord}
           /\ RowNumbersOk(parts)
        THEN <<[name |-> parts[Len(parts)],
                files |-> IntOf(parts[1]),
                fragmented |-> IntOf(parts[2]),
                excess |-> IntOf(parts[3]),
                used_gb |-> FloatOf(parts[5]),
                free_gb |-> FloatOf(parts[6]),
                use_percent |-> FloatOf(RStripPercent(parts[7]))]>>
        ELSE <<>>

\* Optional[DiskMetrics]: <<record>>, or <<>> for None
parse_disk_line(line) ==
    LET parts == SplitWS(Strip(line))
    IN  IF Len(parts) = DiskParts /\ parts[Len(parts)] \notin {Sentinel, NameWord}
        THEN IF RowNumbersOk(parts)
             THEN <<[name |-> parts[Len(parts)],
                     files |-> IntOf(parts[1]),
                     fragmented |-> IntOf(parts[2]),
                     excess |-> IntOf(parts[3]),
                     used_gb |-> FloatOf(parts[5]),
                     free_gb |-> FloatOf(parts[6]),
                     use_percent |-> FloatOf(RStripPercent(parts[7]))]>>
             ELSE <<>>
        ELSE <<>>

parse_array_totals(line) ==
    LET parts == SplitWS(Strip(line))
    IN  IF Len(parts) >= MinTotalsParts /\ RowNumbersOk(parts)
        THEN [total_files |-> IntOf(parts[1]),
              total_fragmented |-> IntOf(parts[2]),
              total_excess |-> IntOf(parts[3]),
              total_used_gb |-> FloatOf(parts[5]),
              total_free_gb |-> FloatOf(parts[6]),
              total_use_percent |-> FloatOf(RStripPercent(parts[7]))]
        ELSE ArrayMetrics0

\* re.search(r"(\d+)% of the array is not scrubbed", output): group(1) or None
NotScrubbed == <<"%", " ", "of the array is not scrubbed">>

SearchNotScrubbed(output) ==
    LET hit(i) == IsDigit(output[i])
                      /\ StartsWithAt(output, DigitRunEnd(output, i) + 1, NotScrubbed)
        starts == {i \in 1..Len(output) : hit(i)}
    IN  IF starts = {} THEN NoMatch
        ELSE SubSeq(output, Min(starts), DigitRunEnd(output, Min(starts)))

\* re.search(r"The oldest block was scrubbed (\d+) days ago, the median (\d+),
\* the newest (\d+)", output): the three groups, or None
OldestPre == <<"The oldest block was scrubbed", " ">>

MedianPre == <<" ", "days ago, the median", " ">>

NewestPre == <<",", " ", "the newest", " ">>

SearchDays(output) ==
    LET a(i) == i + Len(OldestPre)
        ae(i) == DigitRunEnd(output, a(i))
        b(i) == ae(i) + 1 + Len(MedianPre)
        be(i) == DigitRunEnd(output, b(i))
        c(i) == be(i) + 1 + Len(NewestPre)
        ce(i) == DigitRunEnd(output, c(i))
        hit(i) == /\ output[i] = OldestPre[1]
                  /\ StartsWithAt(output, i, OldestPre)
                  /\ ae(i) >= a(i)
                  /\ StartsWithAt(output, ae(i) + 1, MedianPre)
                  /\ be(i) >= b(i)
                  /\ StartsWithAt(output, be(i) + 1, NewestPre)
                  /\ ce(i) >= c(i)
        starts == {i \in 1..Len(output) : hit(i)}
        m == Min(starts)
    IN  IF starts = {} THEN NoMatch
        ELSE <<DigitsValue(SubSeq(output, a(m), ae(m))),
               DigitsValue(SubSeq(output, b(m), be(m))),
               DigitsValue(SubSeq(output, c(m), ce(m)))>>

\* coverage = 1.0 - pct/100, kept as the exact decimal (100 - pct) / 100
parse_scrub_info(output) ==
    LET cov == SearchNotScrubbed(output)
        days == SearchDays(output)
    IN  [oldest_days |-> IF days # NoMatch THEN days[1] ELSE 0,
         median_days |-> IF days # NoMatch THEN days[2] ELSE 0,
         newest_days |-> IF days # NoMatch THEN days[3] ELSE 0,
         coverage_ratio |-> [mant |-> 100 - (IF cov # NoMatch THEN DigitsValue(cov) ELSE 0),
                             frac |-> 2]]

parse_status_flags(output) ==
    [sync_in_progress |-> ~Contains(output, <<"No sync is in progress">>),
     zero_subsecond_timestamps |->
         ~Contains(output, <<"No file has a zero sub-second timestamp">>),
     rehash_needed |-> ~Contains(output, <<"No rehash is in progress or needed">>),
     errors_detected |-> ~Contains(output, <<"No error detected">>)]

\* the table body taken to start on the line after the header
RECURSIVE LocateTable_next_line(_, _, _)
LocateTable_next_line(lines, i, table_start) ==
    IF i >= Len(lines) THEN <<table_start, None>>
    ELSE IF Contains(lines[i + 1], FilesFragmented)
         THEN LocateTable_next_line(lines, i + 1, i + 1)
    ELSE IF table_start # None /\ table_start # 0 /\ StartsWith(lines[i + 1], Dashes)
         THEN <<table_start, i>>
    ELSE LocateTable_next_line(lines, i + 1, table_start)

\* "for i, line in enumerate(lines)": lines0(i) is lines[i] of the code (0-based);
\* the result is <<table_start, table_end>>, None where never assigned
RECURSIVE LocateTable(_, _, _)
LocateTable(lines, i, table_start) ==
    IF i >= Len(lines) THEN <<table_start, None>>
    ELSE IF Contains(lines[i + 1], FilesFragmented)
         THEN LocateTable(lines, i + 1, i + 2)
    ELSE IF table_start # None /\ table_start # 0 /\ StartsWith(lines[i + 1], Dashes)
         THEN <<table_start, i>>
    ELSE LocateTable(lines, i + 1, table_start)

\* "for line in lines[table_start:table_end]" with 0-based, end-exclusive slicing
RECURSIVE TableRows(_, _, _, _)
TableRows(lines, i, table_end, disks) ==
    IF i >= table_end \/ i >= Len(lines) THEN disks
    ELSE LET disk == parse_disk_line(lines[i + 1])
         IN  TableRows(lines, i + 1, table_end, disks \o disk)

status_parse_snapraid_output(output) ==
    LET lines == SplitOn(Strip(output), "\n")
        loc == LocateTable(lines, 0, None)
        table_start == loc[1]
        table_end == loc[2]
        found == table_start # None /\ table_start # 0 /\ table_end # None /\ table_end # 0
    IN  [disks |-> IF found THEN TableRows(lines, table_start, table_end, <<>>) ELSE <<>>,
         array_totals |-> IF found /\ table_end + 1 < Len(lines)
                          THEN parse_array_totals(lines[table_end + 2])
                          ELSE ArrayMetrics0,
         scrub_metrics |-> parse_scrub_info(output),
         status_metrics |-> parse_status_flags(output)]

(* status_exporter.py: formatter *)

GBExp == 9

StatusFamily(name, disks, field) ==
    [n \in 1..Len(disks) |-> Sample(name, <<<<"name", disks[n].name>>>>, disks[n][field])]

RECURSIVE StatusSpace(_, _)
StatusSpace(disks, i) ==
    IF i > Len(disks) THEN <<>>
    ELSE <<Sample("snapraid_disk_space_bytes",
                  <<<<"name", disks[i].name>>, <<"type", "used">>>>,
                  ScaleTrunc(disks[i].used_gb, GBExp)),
           Sample("snapraid_disk_space_bytes",
                  <<<<"name", disks[i].name>>, <<"type", "free">>>>,
                  ScaleTrunc(disks[i].free_gb, GBExp))>>
         \o StatusSpace(disks, i + 1)

status_generate_prometheus_metrics(disks, array, scrub, status) ==
    LET typed(name, t, v) == Sample(name, <<<<"type", t>>>>, v)
    IN  <<Help("snapraid_disk_files_total"), Type("snapraid_disk_files_total", "gauge")>>
        \o StatusFamily("snapraid_disk_files_total", disks, "files")
        \o <<Blank, Help("snapraid_disk_fragmented_files"),
             Type("snapraid_disk_fragmented_files", "gauge")>>
        \o StatusFamily("snapraid_disk_fragmented_files", disks, "fragmented")
        \o <<Blank, Help("snapraid_disk_excess_fragments"),
             Type("snapraid_disk_excess_fragments", "gauge")>>
        \o StatusFamily("snapraid_disk_excess_fragments", disks, "excess")
        \o <<Blank, Help("snapraid_disk_space_bytes"),
             Type("snapraid_disk_space_bytes", "gauge")>>
        \o StatusSpace(disks, 1)
        \o <<Blank, Help("snapraid_array_files_total"),
             Type("snapraid_array_files_total", "gauge"),
             Sample("snapraid_array_files_total", <<>>, array.total_files),
             Blank, Help("snapraid_array_fragmented_files_total"),
             Type("snapraid_array_fragmented_files_total", "gauge"),
             Sample("snapraid_array_fragmented_files_total", <<>>, array.total_fragmented),
             Blank, Help("snapraid_array_excess_fragments_total"),
             Type("snapraid_array_excess_fragments_total", "gauge"),
             Sample("snapraid_array_excess_fragments_total", <<>>, array.total_excess),
             Blank, Help("snapraid_array_space_bytes"),
             Type("snapraid_array_space_bytes", "gauge"),
             typed("snapraid_array_space_bytes", "used",
                   ScaleTrunc(array.total_used_gb, GBExp)),
             typed("snapraid_array_space_bytes", "free",
                   ScaleTrunc(array.total_free_gb, GBExp)),
             Blank, Help("snapraid_scrub_age_days"), Type("snapraid_scrub_age_days", "gauge"),
             typed("snapraid_scrub_age_days", "oldest", scrub.oldest_days),
             typed("snapraid_scrub_age_days", "median", scrub.median_days),
             typed("snapraid_scrub_age_days", "newest", scrub.newest_days),
             Blank, Help("snapraid_scrub_coverage_ratio"),
             Type("snapraid_scrub_coverage_ratio", "gauge"),
             Sample("snapraid_scrub_coverage_ratio", <<>>, scrub.coverage_ratio),
             Blank, Help("snapraid_status"), Type("snapraid_status", "gauge"),
             typed("snapraid_status", "sync_in_progress", BoolInt(status.sync_in_progress)),
             typed("snapraid_status", "zero_subsecond_timestamps",
                   BoolInt(status.zero_subsecond_timestamps)),
             typed("snapraid_status", "rehash_needed", BoolInt(status.rehash_needed)),
             typed("snapraid_status", "errors_detected", BoolInt(status.errors_detected))>>

-----------------------------------------------------------------------------
(* Report texts the parsers are run on: every sequence of at most Max*Lines *)
(* lines drawn from a set of lines of the shapes snapraid prints, joined    *)
(* with "\n".                                                               *)

RECURSIVE Join(_)
Join(lines) ==
    IF lines = <<>> THEN <<>>
    ELSE IF Len(lines) = 1 THEN lines[1]
    ELSE lines[1] \o <<"\n">> \o Join(Tail(lines))

TextsOf(lineSet, n) == {Join(ls) : ls \in UNION {[1..k -> lineSet] : k \in 0..n}}

MaxDiffLines == 2

DiffLineSet ==
    {<<n, " ", Categories[c]>> : n \in {"1", "2"}, c \in 1..Len(Categories)}
    \cup {<<"1", "2", " ", " ", "equal">>,
          <<"x", "3", " ", "moved", "x">>,
          <<" ", "1", " ", "added", " ", "2", " ", "removed">>,
          <<"add", " ", "3", "restored">>,
          <<"No", " ", "differences">>,
          <<"No", " ", " ", "differences">>,
          <<"no", " ", "differences">>,
          <<>>}

DiffTexts(n) == TextsOf(DiffLineSet, n)

\* the state of the pipelines while only a parser is exercised
MainOff ==
    /\ pc = <<>> /\ env = <<>> /\ snapraid_output = <<>> /\ metrics = <<>>
    /\ failed = <<>> /\ raised = <<>> /\ touched = <<>> /\ prior = <<>>
    /\ dir = FALSE /\ fs = <<>> /\ fd = <<>> /\ scraped = <<>>

InitDiffParse ==
    /\ pkind = "diff" /\ ptext \in DiffTexts(MaxDiffLines) /\ presult = <<>>
    /\ MainOff

DiffParse ==
    /\ pkind = "diff" /\ presult = <<>>
    /\ presult' = <<diff_parse_snapraid_output(ptext)>>
    /\ UNCHANGED <<pkind, ptext>>
    /\ UNCHANGED mvars

DiffGenerate ==
    /\ pkind = "diff" /\ Len(presult) = 1
    /\ presult' = Append(presult, diff_generate_prometheus_metrics(presult[1]))
    /\ UNCHANGED <<pkind, ptext>>
    /\ UNCHANGED mvars

NextDiffParse == DiffParse \/ DiffGenerate

SpecDiffParse == InitDiffParse /\ [][NextDiffParse]_vars

\* the lines of the text under test, as the reader of the report sees them
TextLines == SplitOn(ptext, "\n")

\* N when line is exactly "<N> <category>", None otherwise
CountLine(line, cat) ==
    LET n == Len(line)
    IN  IF n >= 3 /\ line[n] = cat /\ line[n - 1] = " " /\ IsDigitStr(SubSeq(line, 1, n - 2))
        THEN DigitsValue(SubSeq(line, 1, n - 2))
        ELSE None

DiffParsed == pkind = "diff" /\ Len(presult) >= 1

\* C7 (as claimed): a line "<N> <category>" anywhere in the input sets that
\* category's count to exactly N, whatever the other lines and their order are.
C7_AnyLineSetsCount ==
    DiffParsed =>
        \A i \in 1..Len(TextLines) : \A c \in 1..Len(Categories) :
            CountLine(TextLines[i], Categories[c]) # None
                => presult[1][Categories[c]] = CountLine(TextLines[i], Categories[c])

\* C7 (amended): a line "<N> <category>" sets that category's count to exactly N
\* provided no later line contains a "<digits><whitespace><category>" match for
\* the same category; the other lines and their order do not matter otherwise.
C7_LastLineSetsCount ==
    DiffParsed =>
        \A i \in 1..Len(TextLines) : \A c \in 1..Len(Categories) :
            /\ CountLine(TextLines[i], Categories[c]) # None
            /\ \A j \in (i + 1)..Len(TextLines) :
                   SearchCount(TextLines[j], Categories[c]) = None
            => presult[1][Categories[c]] = CountLine(TextLines[i], Categories[c])

\* two count lines of one category with different numbers, the later one taken
C7_Witness ==
    /\ DiffParsed
    /\ ptext = <<"1", " ", "added", "\n", "2", " ", "added">>
    /\ presult[1].added = 2

\* C10: hasDifferences is false exactly for the texts that contain the substring
\* "No differences" (one space, this case), and true for every other text, the
\* empty one included, whatever count lines the text has.
C10_HasDifferences ==
    DiffParsed =>
        (presult[1].has_differences
            <=> ~\E i \in 1..Len(ptext) :
                    /\ i + 2 <= Len(ptext)
                    /\ ptext[i] = "No" /\ ptext[i + 1] = " " /\ ptext[i + 2] = "differences")

\* a text with "No differences" and a non-zero count still reports no differences
C10_Witness ==
    /\ DiffParsed
    /\ ptext = <<"2", " ", "added", "\n", "No", " ", "differences">>
    /\ presult[1].added = 2
    /\ ~presult[1].has_differences

-----------------------------------------------------------------------------
(* smart parser under test *)

MaxSmartRows == 2

\* "38 15 0 5% 4.0 S1 /dev/sda d1" and its variants
SmartLine(temp, fp, size, serial, device, rest) ==
    temp \o <<" ", "1", "5", " ", "0", " ">> \o fp \o <<" ">> \o size
         \o <<" ">> \o serial \o <<" ">> \o device \o rest

SmartGoodLine ==
    SmartLine(<<"3", "8">>, <<"5", "%">>, <<"4", ".", "0">>, <<"S1">>, <<"/dev/sda">>,
              <<" ", "d1">>)

\* lines of the report below its heading
SmartLineSet ==
    {SmartGoodLine,
     SmartLine(<<"-">>, <<"-">>, <<"-">>, <<"S2">>, <<"/dev/sdb">>, <<" ", "d2", " ", "x">>),
     SmartLine(<<"3", "0">>, <<"1", "%">>, <<"2", ".", "0">>, <<"-">>, <<"/dev/sdc">>,
               <<" ", "d3">>),
     SmartLine(<<"3", "1">>, <<"1", "%">>, <<"2", ".", "0">>, <<"S4">>, <<"-">>,
               <<" ", "d4">>),
     SmartLine(<<"3", "2">>, <<"x", "%">>, <<"2", ".", "0">>, <<"S5">>, <<"/dev/sde">>,
               <<" ", "d5">>),
     SmartLine(<<"3", "4">>, <<"1", "%">>, <<"2", ".", ".">>, <<"S8">>, <<"/dev/sdh">>,
               <<" ", "d8">>),
     SmartLine(<<"3", "3">>, <<"1", "%">>, <<"2", ".", "0">>, <<"S6">>, <<"/dev/sdf">>,
               <<>>),
     SmartLine(<<"-", "-", "-", "-">>, <<"1", "%">>, <<"2", ".", "0">>, <<"S7">>,
               <<"/dev/sdg">>, <<" ", "d7">>),
     <<"The FP column", " ", "x">>,
     <<"x", " ", "fail in the next year is", " ", "8", ".", "5", "%", ".">>,
     <<>>}

\* lines of the heading; a unit row there is part of the heading all the same
SmartHeadSet == {<<"SnapRAID SMART report:">>, <<>>, SmartGoodLine}

\* a heading of up to SmartHeaderLines lines, then up to MaxSmartRows lines
SmartTexts(n) ==
    {Join(h \o b) :
        h \in UNION {[1..k -> SmartHeadSet] : k \in 0..SmartHeaderLines},
        b \in UNION {[1..k -> SmartLineSet] : k \in 0..n}}

InitSmartParse ==
    /\ pkind = "smart" /\ ptext \in SmartTexts(MaxSmartRows) /\ presult = <<>>
    /\ MainOff

SmartParse ==
    /\ pkind = "smart" /\ presult = <<>>
    /\ presult' = <<smart_parse_snapraid_output(ptext)>>
    /\ UNCHANGED <<pkind, ptext>>
    /\ UNCHANGED mvars

SmartGenerate ==
    /\ pkind = "smart" /\ Len(presult) = 1
    /\ presult' = Append(presult,
                         smart_generate_prometheus_metrics(presult[1].disks,
                                                           presult[1].array_failure_prob))
    /\ UNCHANGED <<pkind, ptext>>
    /\ UNCHANGED mvars

NextSmartParse == SmartParse \/ SmartGenerate

SpecSmartParse == InitSmartParse /\ [][NextSmartParse]_vars

SmartParsed == pkind = "smart" /\ Len(presult) >= 1

\* the lines of the stripped text under test
StrippedLines == SplitOn(Strip(ptext), "\n")

\* the n-th smallest element of a set of line numbers
NthOf(S, n) == CHOOSE i \in S : Cardinality({j \in S : j < i}) = n - 1

\* the lines the claim counts: after the first three, before the first line
\* (of those) that begins with "The FP column", not beginning with "----", with
\* at least 8 tokens, failure probability and size parsing, device and serial set
SmartUnitLines ==
    LET L == StrippedLines
        fp == {i \in 4..Len(L) : L[i] # <<>> /\ L[i][1] = "The FP column"}
        stop == IF fp = {} THEN Len(L) + 1 ELSE Min(fp)
        tok(i) == SplitWS(L[i])
        dashed(i) == Len(L[i]) >= 4 /\ \A k \in 1..4 : L[i][k] = "-"
        fpOk(i) == tok(i)[4] = <<"-">> \/ FloatOk(RStripPercent(tok(i)[4]))
        sizeOk(i) == tok(i)[5] = <<"-">> \/ FloatOk(tok(i)[5])
    IN  {i \in 4..(stop - 1) :
            /\ ~dashed(i)
            /\ Len(tok(i)) >= 8
            /\ fpOk(i) /\ sizeOk(i)
            /\ tok(i)[7] # <<"-">> /\ tok(i)[6] # <<"-">>}

\* C8: the health parser returns, in input order, exactly one unit per line that
\* is after the first three lines of the stripped text, before the first later
\* line beginning with "The FP column", does not begin with "----", has at least
\* 8 tokens, parses its failure-probability and size tokens, and has device and
\* serial other than "-"; every other line contributes nothing.
C8_UnitsAreQualifyingLines ==
    SmartParsed =>
        LET disks == presult[1].disks
            L == StrippedLines
            units == SmartUnitLines
        IN  /\ Len(disks) = Cardinality(units)
            /\ \A n \in 1..Len(disks) :
                   LET t == SplitWS(L[NthOf(units, n)])
                   IN  /\ disks[n].serial = t[6]
                       /\ disks[n].device = t[7]
                       /\ disks[n].name = t[8]

\* a row without a serial is left out and the row after it is the only unit
C8_Witness ==
    /\ SmartParsed
    /\ \E i \in 4..(Len(StrippedLines) - 1) :
           /\ Len(SplitWS(StrippedLines[i])) >= 8
           /\ SplitWS(StrippedLines[i])[6] = <<"-">>
           /\ SmartUnitLines = {i + 1}
    /\ Len(presult[1].disks) = 1
    /\ presult[1].disks[1].serial = <<"S1">>

-----------------------------------------------------------------------------
(* status parser under test *)

MaxStatusLines == 5

\* "12 0 0 - 1.5 2.5 37% d1" and its variants
StatusLine(files, name) ==
    files \o <<" ", "0", " ", "0", " ", "-", " ", "1", ".", "5", " ", "2", ".", "5", " ",
               "3", "7", "%", " ">> \o name

StatusLineSet ==
    {<<" ", "Files", " ", "Fragmented", " ", "Name">>,
     <<"-", "-", "-", "-", "-">>,
     StatusLine(<<"1", "2">>, <<"d1">>),
     StatusLine(<<"1", "3">>, <<"-">>),
     StatusLine(<<"1", "4">>, <<"Name">>),
     StatusLine(<<"x">>, <<"d4">>),
     StatusLine(<<"1", "5">>, <<"d5", " ", "x">>)}

StatusTexts(n) == TextsOf(StatusLineSet, n)

InitStatusParse ==
    /\ pkind = "status" /\ ptext \in StatusTexts(MaxStatusLines) /\ presult = <<>>
    /\ MainOff

StatusParse ==
    /\ pkind = "status" /\ presult = <<>>
    /\ presult' = <<status_parse_snapraid_output(ptext)>>
    /\ UNCHANGED <<pkind, ptext>>
    /\ UNCHANGED mvars

StatusGenerate ==
    /\ pkind = "status" /\ Len(presult) = 1
    /\ presult' = Append(presult,
                         status_generate_prometheus_metrics(
                             presult[1].disks, presult[1].array_totals,
                             presult[1].scrub_metrics, presult[1].status_metrics))
    /\ UNCHANGED <<pkind, ptext>>
    /\ UNCHANGED mvars

NextStatusParse == StatusParse \/ StatusGenerate

SpecStatusParse == InitStatusParse /\ [][NextStatusParse]_vars

StatusParsed == pkind = "status" /\ Len(presult) >= 1

\* the table region: from two lines after the last header line in front of the
\* first line that begins with "----" and follows a header, up to that line
TableRegion ==
    LET L == StrippedLines
        header(i) == \E k \in 1..(Len(L[i]) - 2) :
                         L[i][k] = "Files" /\ L[i][k + 1] = " " /\ L[i][k + 2] = "Fragmented"
        dashed(i) == Len(L[i]) >= 4 /\ \A k \in 1..4 : L[i][k] = "-"
        ends == {i \in 1..Len(L) : ~header(i) /\ dashed(i) /\ \E h \in 1..(i - 1) : header(h)}
        e == Min(ends)
        h == Max({i \in 1..(e - 1) : header(i)})
    IN  IF ends = {} THEN {} ELSE (h + 2)..(e - 1)

\* the lines of the region that the claim lets through: exactly 8 tokens, the
\* last one neither "-" nor "Name", and the six numeric columns numeric
CapacityLines ==
    LET L == StrippedLines
        tok(i) == SplitWS(L[i])
    IN  {i \in TableRegion :
            /\ Len(tok(i)) = 8
            /\ tok(i)[8] # <<"-">> /\ tok(i)[8] # <<"Name">>
            /\ IntOk(tok(i)[1]) /\ IntOk(tok(i)[2]) /\ IntOk(tok(i)[3])
            /\ FloatOk(tok(i)[5]) /\ FloatOk(tok(i)[6])
            /\ FloatOk(RStripPercent(tok(i)[7]))}

\* C9: a line of the table region yields a UnitCapacity only if it has exactly 8
\* tokens and its last token is neither "-" nor "Name"; a row whose last token is
\* "-" yields nothing even when its other tokens parse, and a row with a
\* non-numeric token in a numeric column is dropped while the other rows stay.
C9_RowsOfTheRegion ==
    StatusParsed =>
        LET disks == presult[1].disks
            L == StrippedLines
            rows == CapacityLines
        IN  /\ Len(disks) = Cardinality(rows)
            /\ \A n \in 1..Len(disks) :
                   LET t == SplitWS(L[NthOf(rows, n)])
                   IN  disks[n].name = t[8] /\ disks[n].files = IntOf(t[1])

\* a region with a "-" row and a good row: only the good row is a unit
C9_Witness ==
    /\ StatusParsed
    /\ \E i \in TableRegion, j \in TableRegion :
           /\ i # j
           /\ Len(SplitWS(StrippedLines[i])) = 8
           /\ SplitWS(StrippedLines[i])[8] = <<"-">>
           /\ CapacityLines = {j}
    /\ Len(presult[1].disks) = 1
    /\ presult[1].disks[1].name = <<"d1">>

-----------------------------------------------------------------------------
(* status parser: localisation of the table *)

MaxTableLines == 5

\* two header shapes (one with the two words one space apart, one with two
\* spaces between them), a dash line that holds the header text, a dash line,
\* and two rows, either of which can stand where the totals are read
TableLineSet ==
    {<<" ", "Files", " ", "Fragmented", " ", "Name">>,
     <<" ", "Files", " ", " ", "Fragmented", " ", "Name">>,
     <<"-", "-", "-", "-", " ", "Files", " ", "Fragmented">>,
     <<"-", "-", "-", "-", "-">>,
     StatusLine(<<"1", "2">>, <<"d1">>),
     StatusLine(<<"1", "3">>, <<"d2">>)}

TableTexts(n) == TextsOf(TableLineSet, n)

InitTableParse ==
    /\ pkind = "status" /\ ptext \in TableTexts(MaxTableLines) /\ presult = <<>>
    /\ MainOff

\* only the parser is run on these texts
NextTableParse == StatusParse

SpecTableParse == InitTableParse /\ [][NextTableParse]_vars

\* lines of L holding the word "Files" and the word "Fragmented", anywhere
HeadersWithBothWords(L) ==
    {i \in 1..Len(L) :
        /\ \E k \in 1..Len(L[i]) : L[i][k] = "Files"
        /\ \E k \in 1..Len(L[i]) : L[i][k] = "Fragmented"}

\* lines of L holding the text "Files Fragmented": the two words one space apart
HeadersWithPhrase(L) ==
    {i \in 1..Len(L) :
        \E k \in 1..(Len(L[i]) - 2) :
            L[i][k] = "Files" /\ L[i][k + 1] = " " /\ L[i][k + 2] = "Fragmented"}

\* lines of L whose first four characters are dashes
DashLines(L) ==
    {i \in 1..Len(L) : Len(L[i]) >= 4 /\ \A k \in 1..4 : L[i][k] = "-"}

\* the end delimiter for a set H of header lines: the first dash line that
\* follows a header and is not a header itself; 0 if there is none
EndDelimiter(L, H) ==
    LET ends == {i \in DashLines(L) \ H : \E h \in H : h < i}
    IN  IF ends = {} THEN 0 ELSE Min(ends)

\* the body: from two lines after the last header in front of the delimiter e
BodyLines(H, e) ==
    IF e = 0 THEN {} ELSE (Max({h \in H : h < e}) + 2)..(e - 1)

\* the rows of the lines a..b of L, in the order of the lines
RECURSIVE RowsOfLines(_, _, _)
RowsOfLines(L, a, b) ==
    IF a > b THEN <<>>
    ELSE parse_disk_line(L[a]) \o RowsOfLines(L, a + 1, b)

\* the rows of the body and the totals read on the line after the delimiter
\* (zeros if there is no such line), for a set H of header lines
TableOf(L, H) ==
    LET e == EndDelimiter(L, H)
        body == BodyLines(H, e)
    IN  [disks |-> IF body = {} THEN <<>> ELSE RowsOfLines(L, Min(body), Max(body)),
         array_totals |-> IF e # 0 /\ e + 1 <= Len(L)
                          THEN parse_array_totals(L[e + 1])
                          ELSE ArrayMetrics0]

\* C11 as stated: the header is a line containing both "Files" and
\* "Fragmented"; the rows are those of the lines from two after the header up
\* to the next line beginning with dashes, and the totals are read from the
\* line after that delimiter.
C11_TableOfBothWords ==
    StatusParsed =>
        LET L == StrippedLines
            t == TableOf(L, HeadersWithBothWords(L))
        IN  presult[1].disks = t.disks /\ presult[1].array_totals = t.array_totals

\* C11 amended: the header is a line containing the text "Files Fragmented"
\* (the last such line in front of the delimiter); the body starts two lines
\* after it and ends at the first later line that begins with "----" and is
\* not such a header; the rows are exactly those of the body's lines, in
\* order, and the totals are read from the line immediately following the
\* delimiter.
C11_TableOfThePhrase ==
    StatusParsed =>
        LET L == StrippedLines
            t == TableOf(L, HeadersWithPhrase(L))
        IN  presult[1].disks = t.disks /\ presult[1].array_totals = t.array_totals

\* header, a row on the line after it, a row in the body, the delimiter, the
\* totals: one unit from the body, totals from the line after the delimiter
C11_Witness ==
    /\ StatusParsed
    /\ Len(presult[1].disks) = 1
    /\ presult[1].disks[1].name = <<"d1">>
    /\ presult[1].array_totals.total_files = 13
    /\ LET L == StrippedLines
       IN  /\ Len(L) = 5
           /\ HeadersWithPhrase(L) = {1}
           /\ EndDelimiter(L, {1}) = 4
           /\ parse_disk_line(L[2]) # <<>>

-----------------------------------------------------------------------------
(* main() of the three exporters.  A run is <<kind, n>>; the exporters are   *)
(* started by a scheduler, one process per run.                              *)

Runs == Kinds \X {1, 2}

Kind(r) == r[1]

\* a path of the output directory is <<stem, suffix>> of its file name
with_suffix(path, suffix) == <<path[1], suffix>>

\* Path(output_dir) / 'snapraid_<kind>.prom'
output_path(k) ==
    CASE k = "diff" -> <<"snapraid_diff", ".prom">>
      [] k = "smart" -> <<"snapraid_smart", ".prom">>
      [] k = "status" -> <<"snapraid_status", ".prom">>

\* output_path.parent, the output directory itself
output_dir == <<".", "">>

\* the rendering written in place, without a temp file
temp_path_in_place(k) == output_path(k)

\* one temp file name for all three exporters
temp_path_shared(k) == with_suffix(output_path("diff"), ".prom.tmp")

\* output_path.with_suffix('.prom.tmp')
temp_path(k) == with_suffix(output_path(k), ".prom.tmp")

Paths == {"snapraid_diff", "snapraid_smart", "snapraid_status"} \X {".prom", ".prom.tmp"}

\* a file is the sequence of the chunks written to it
NoFile == [exists |-> FALSE, data |-> <<>>]

File(data) == [exists |-> TRUE, data |-> data]

\* an open file follows its file, not its name: fd[r].at is the path the file
\* run r holds open is found at now, Unlinked once no name is left for it,
\* and fd[r].pos is the number of chunks the run has written to it
Closed == <<"", "">>

Unlinked == <<"", "(deleted)">>

NoFd == [at |-> Closed, pos |-> 0]

\* the part of a file between its end and a write beyond the end reads as NULs
Hole == "NUL"

\* a chunk written at offset pos of the file
WriteAt(data, pos, chunk) ==
    [i \in 1..Max({Len(data), pos + 1}) |->
        IF i = pos + 1 THEN chunk
        ELSE IF i <= Len(data) THEN data[i] ELSE Hole]

\* the open files after the file at path from has been given the name to
\* (rename), or has lost its name (to = Unlinked)
Moved(from, to) ==
    [q \in DOMAIN fd |->
        IF from = to THEN fd[q]
        ELSE IF fd[q].at = from THEN [fd[q] EXCEPT !.at = to]
        ELSE IF fd[q].at = to THEN [fd[q] EXCEPT !.at = Unlinked]
        ELSE fd[q]]

\* parse_snapraid_output, then generate_prometheus_metrics
Render(k, text) ==
    CASE k = "diff" -> diff_generate_prometheus_metrics(diff_parse_snapraid_output(text))
      [] k = "smart" ->
            LET p == smart_parse_snapraid_output(text)
            IN  smart_generate_prometheus_metrics(p.disks, p.array_failure_prob)
      [] k = "status" ->
            LET p == status_parse_snapraid_output(text)
            IN  status_generate_prometheus_metrics(p.disks, p.array_totals,
                                                   p.scrub_metrics, p.status_metrics)

\* the reports snapraid prints in these runs, and the ones of the runs before
Report(k) ==
    CASE k = "diff" -> Join(<<<<"1", " ", "equal">>, <<"2", " ", "added">>>>)
      [] k = "smart" ->
            Join(<<<<"SnapRAID SMART report:">>, <<>>, <<"Temp">>, SmartGoodLine>>)
      [] k = "status" ->
            Join(<<<<" ", "Files", " ", "Fragmented", " ", "Name">>, <<"Files">>,
                   StatusLine(<<"1", "2">>, <<"d1">>), <<"-", "-", "-", "-", "-">>,
                   StatusLine(<<"1", "2">>, <<"x">>)>>)

OldReport(k) ==
    CASE k = "diff" -> <<"No", " ", "differences">>
      [] k = "smart" -> <<"SnapRAID SMART report:">>
      [] k = "status" -> <<"No error detected">>

Complete(rendering) == File(<<rendering, "\n">>)

\* what acquisition gives a run: the command exits non-zero, the file named by
\* SNAPRAID_INPUT_FILE cannot be read, or the command prints a text, possibly
\* the empty one; smart_exporter.py has no input file
EnvSet(k) ==
    {[src |-> "cmd", ok |-> FALSE, text |-> <<>>],
     [src |-> "cmd", ok |-> TRUE, text |-> Report(k)]}
    \cup IF k = "smart" THEN {}
         ELSE {[src |-> "file", ok |-> FALSE, text |-> <<>>],
               [src |-> "cmd", ok |-> TRUE, text |-> <<>>]}

NoRun == [src |-> "cmd", ok |-> FALSE, text |-> <<>>]

\* the two files of a kind before the runs: the final file of an earlier run or
\* none, and the temp file a killed run left behind or none
OldFile(k) == Complete(Render(k, OldReport(k)))

StaleTemp(k) == File(<<Render(k, OldReport(k))>>)

FsOf(final, temp) ==
    [p \in Paths |->
        LET k == CHOOSE j \in Kinds : p[1] = output_path(j)[1]
        IN  IF p[2] = ".prom" THEN final[k] ELSE temp[k]]

ParserOff == pkind = "none" /\ ptext = <<>> /\ presult = <<>>

InitFs ==
    /\ dir \in BOOLEAN
    /\ \E hasFinal \in [Kinds -> BOOLEAN], hasTemp \in [{"diff", "status"} -> BOOLEAN] :
          /\ (~dir => \A k \in Kinds : ~hasFinal[k])
          /\ (~dir => \A k \in {"diff", "status"} : ~hasTemp[k])
          /\ fs = FsOf([k \in Kinds |-> IF hasFinal[k] THEN OldFile(k) ELSE NoFile],
                       [k \in Kinds |-> IF k # "smart" /\ hasTemp[k] THEN StaleTemp(k)
                                        ELSE NoFile])
    /\ prior = [k \in Kinds |-> fs[output_path(k)]]

InitRuns(started) ==
    /\ pc = [r \in Runs |-> IF r \in started THEN "start" ELSE "off"]
    /\ \E e \in [Kinds -> UNION {EnvSet(k) : k \in Kinds}] :
          /\ \A k \in Kinds : e[k] \in EnvSet(k)
          /\ env = [r \in Runs |-> IF r \in started THEN e[Kind(r)] ELSE NoRun]
    /\ snapraid_output = [r \in Runs |-> <<>>]
    /\ metrics = [r \in Runs |-> <<>>]
    /\ failed = [r \in Runs |-> "none"]
    /\ raised = [r \in Runs |-> ""]
    /\ touched = [r \in Runs |-> {}]
    /\ fd = [r \in Runs |-> NoFd]
    /\ scraped = [kind |-> "none", file |-> NoFile]

\* one run of each exporter
Init ==
    /\ ParserOff
    /\ InitRuns(Kinds \X {1})
    /\ InitFs

Touch(r, calls) == touched' = [touched EXCEPT ![r] = @ \cup calls]

\* main(): output_dir = os.getenv(...), output_path = ...; smart_exporter.py
\* does not import os, the name lookup raises NameError
ResolveOutputPath(r) ==
    /\ pc[r] = "start"
    /\ IF Kind(r) = "smart"
       THEN /\ pc' = [pc EXCEPT ![r] = "raised"]
            /\ raised' = [raised EXCEPT ![r] = "NameError"]
       ELSE /\ pc' = [pc EXCEPT ![r] = "acquire"]
            /\ UNCHANGED raised
    /\ UNCHANGED <<env, snapraid_output, metrics, failed, touched, prior, dir, fs, fd, scraped>>
    /\ UNCHANGED pvars

\* get_snapraid_output() / run_snapraid_smart(): the text, "" on failure
get_snapraid_output(r) == IF env[r].ok THEN env[r].text ELSE <<>>

\* main() without the return on empty output
Acquire_no_return(r) ==
    /\ pc[r] = "acquire"
    /\ snapraid_output' = [snapraid_output EXCEPT ![r] = get_snapraid_output(r)]
    /\ pc' = [pc EXCEPT ![r] = "render"]
    /\ UNCHANGED <<env, metrics, failed, raised, touched, prior, dir, fs, fd,
                   scraped>>
    /\ UNCHANGED pvars

\* main(): snapraid_output = get_snapraid_output(); if not snapraid_output: return
Acquire(r) ==
    /\ pc[r] = "acquire"
    /\ snapraid_output' = [snapraid_output EXCEPT ![r] = get_snapraid_output(r)]
    /\ pc' = [pc EXCEPT ![r] = IF get_snapraid_output(r) = <<>> THEN "done" ELSE "render"]
    /\ UNCHANGED <<env, metrics, failed, raised, touched, prior, dir, fs, fd,
                   scraped>>
    /\ UNCHANGED pvars

\* main(): parse_snapraid_output, generate_prometheus_metrics
ParseAndGenerate(r) ==
    /\ pc[r] = "render"
    /\ metrics' = [metrics EXCEPT ![r] = Render(Kind(r), snapraid_output[r])]
    /\ pc' = [pc EXCEPT ![r] = "mkdir"]
    /\ UNCHANGED <<env, snapraid_output, failed, raised, touched, prior, dir, fs, fd, scraped>>
    /\ UNCHANGED pvars

\* main(): output_path.parent.mkdir(parents=True, exist_ok=True), outside the try;
\* it cannot fail on a directory that exists
Mkdir(r) ==
    /\ pc[r] = "mkdir"
    /\ \E ok \in BOOLEAN :
          /\ (~ok => ~dir)
          /\ IF ok
             THEN /\ dir' = TRUE
                  /\ pc' = [pc EXCEPT ![r] = "open"]
                  /\ UNCHANGED <<failed, raised>>
             ELSE /\ pc' = [pc EXCEPT ![r] = "raised"]
                  /\ failed' = [failed EXCEPT ![r] = "mkdir"]
                  /\ raised' = [raised EXCEPT ![r] = "OSError"]
                  /\ UNCHANGED dir
    /\ Touch(r, {<<"mkdir", output_dir>>})
    /\ UNCHANGED <<env, snapraid_output, metrics, prior, fs, fd, scraped>>
    /\ UNCHANGED pvars

\* main(): open(temp_path, 'w') creates the file or truncates it
Open(r) ==
    /\ pc[r] = "open"
    /\ \E ok \in BOOLEAN :
          IF ok /\ dir
          THEN /\ fs' = [fs EXCEPT ![temp_path(Kind(r))] = File(<<>>)]
               /\ fd' = [fd EXCEPT ![r] = [at |-> temp_path(Kind(r)), pos |-> 0]]
               /\ pc' = [pc EXCEPT ![r] = "write"]
               /\ UNCHANGED failed
          ELSE /\ pc' = [pc EXCEPT ![r] = "except"]
               /\ failed' = [failed EXCEPT ![r] = "open"]
               /\ UNCHANGED <<fs, fd>>
    /\ Touch(r, {<<"open", temp_path(Kind(r))>>})
    /\ UNCHANGED <<env, snapraid_output, metrics, raised, prior, dir, scraped>>
    /\ UNCHANGED pvars

\* f.write(chunk): the chunk lands at the run's offset in the file it holds
\* open, under whatever name that file has by now; a file that has lost its
\* name takes the chunk out of sight
WriteChunk(r, chunk) ==
    IF fd[r].at \in Paths
    THEN fs' = [fs EXCEPT ![fd[r].at] = File(WriteAt(@.data, fd[r].pos, chunk))]
    ELSE UNCHANGED fs

\* main(): f.write(metrics); an exception leaves the with block and closes the file
Write(r) ==
    /\ pc[r] = "write"
    /\ \E ok \in BOOLEAN :
          IF ok
          THEN /\ WriteChunk(r, metrics[r])
               /\ fd' = [fd EXCEPT ![r].pos = @ + 1]
               /\ pc' = [pc EXCEPT ![r] = "newline"]
               /\ UNCHANGED failed
          ELSE /\ pc' = [pc EXCEPT ![r] = "except"]
               /\ failed' = [failed EXCEPT ![r] = "write"]
               /\ fd' = [fd EXCEPT ![r] = NoFd]
               /\ UNCHANGED fs
    /\ Touch(r, {<<"write", temp_path(Kind(r))>>})
    /\ UNCHANGED <<env, snapraid_output, metrics, raised, prior, dir, scraped>>
    /\ UNCHANGED pvars

\* main(): f.write('\n') and the end of the with block, which closes the file
WriteNewline(r) ==
    /\ pc[r] = "newline"
    /\ \E ok \in BOOLEAN :
          IF ok
          THEN /\ WriteChunk(r, "\n")
               /\ pc' = [pc EXCEPT ![r] = "rename"]
               /\ UNCHANGED failed
          ELSE /\ pc' = [pc EXCEPT ![r] = "except"]
               /\ failed' = [failed EXCEPT ![r] = "write"]
               /\ UNCHANGED fs
    /\ fd' = [fd EXCEPT ![r] = NoFd]
    /\ Touch(r, {<<"write", temp_path(Kind(r))>>})
    /\ UNCHANGED <<env, snapraid_output, metrics, raised, prior, dir, scraped>>
    /\ UNCHANGED pvars

\* main(): temp_path.rename(output_path), atomic; it fails when temp_path is gone
Rename(r) ==
    /\ pc[r] = "rename"
    /\ \E ok \in BOOLEAN :
          IF ok /\ fs[temp_path(Kind(r))].exists
          THEN /\ fs' = [fs EXCEPT ![output_path(Kind(r))] = fs[temp_path(Kind(r))],
                                   ![temp_path(Kind(r))] =
                                       IF temp_path(Kind(r)) = output_path(Kind(r))
                                       THEN fs[temp_path(Kind(r))] ELSE NoFile]
               /\ fd' = Moved(temp_path(Kind(r)), output_path(Kind(r)))
               /\ pc' = [pc EXCEPT ![r] = "done"]
               /\ UNCHANGED failed
          ELSE /\ pc' = [pc EXCEPT ![r] = "except"]
               /\ failed' = [failed EXCEPT ![r] = "rename"]
               /\ UNCHANGED <<fs, fd>>
    /\ Touch(r, {<<"rename", temp_path(Kind(r))>>, <<"rename", output_path(Kind(r))>>})
    /\ UNCHANGED <<env, snapraid_output, metrics, raised, prior, dir, scraped>>
    /\ UNCHANGED pvars

\* an except clause that only logs
Except_no_cleanup(r) ==
    /\ pc[r] = "except"
    /\ pc' = [pc EXCEPT ![r] = "done"]
    /\ UNCHANGED <<env, snapraid_output, metrics, failed, raised, touched, prior, dir, fs,
                   fd, scraped>>
    /\ UNCHANGED pvars

\* main(), except Exception: if temp_path.exists()
Except(r) ==
    /\ pc[r] = "except"
    /\ pc' = [pc EXCEPT ![r] = IF fs[temp_path(Kind(r))].exists THEN "unlink" ELSE "done"]
    /\ Touch(r, {<<"exists", temp_path(Kind(r))>>})
    /\ UNCHANGED <<env, snapraid_output, metrics, failed, raised, prior, dir, fs, fd, scraped>>
    /\ UNCHANGED pvars

\* main(), except Exception: temp_path.unlink(); FileNotFoundError leaves main()
\* when the file is gone by now
Unlink(r) ==
    /\ pc[r] = "unlink"
    /\ IF fs[temp_path(Kind(r))].exists
       THEN /\ fs' = [fs EXCEPT ![temp_path(Kind(r))] = NoFile]
            /\ fd' = Moved(temp_path(Kind(r)), Unlinked)
            /\ pc' = [pc EXCEPT ![r] = "done"]
            /\ UNCHANGED raised
       ELSE /\ pc' = [pc EXCEPT ![r] = "raised"]
            /\ raised' = [raised EXCEPT ![r] = "FileNotFoundError"]
            /\ UNCHANGED <<fs, fd>>
    /\ Touch(r, {<<"unlink", temp_path(Kind(r))>>})
    /\ UNCHANGED <<env, snapraid_output, metrics, failed, prior, dir, scraped>>
    /\ UNCHANGED pvars

\* the metrics scraper reads one of the final files, whole
Scrape(k) ==
    /\ scraped' = [kind |-> k, file |-> fs[output_path(k)]]
    /\ UNCHANGED <<pc, env, snapraid_output, metrics, failed, raised, touched, prior, dir,
                   fs, fd>>
    /\ UNCHANGED pvars

Next ==
    \/ \E r \in Runs : ResolveOutputPath(r)
    \/ \E r \in Runs : Acquire(r)
    \/ \E r \in Runs : ParseAndGenerate(r)
    \/ \E r \in Runs : Mkdir(r)
    \/ \E r \in Runs : Open(r)
    \/ \E r \in Runs : Write(r)
    \/ \E r \in Runs : WriteNewline(r)
    \/ \E r \in Runs : Rename(r)
    \/ \E r \in Runs : Except(r)
    \/ \E r \in Runs : Unlink(r)
    \/ \E k \in Kinds : Scrape(k)

Spec == Init /\ [][Next]_vars

\* two runs of one exporter, started by two overlapping timer ticks; both get
\* the same report
InitOverlap ==
    /\ ParserOff
    /\ \E k \in Kinds : InitRuns({<<k, 1>>, <<k, 2>>})
    /\ InitFs

SpecOverlap == InitOverlap /\ [][Next]_vars

-----------------------------------------------------------------------------
(* Properties of the runs *)

Started(r) == pc[r] # "off"

Ended(r) == pc[r] \in {"done", "raised"}

PersistenceSteps == {"mkdir", "open", "write", "rename"}

\* acquisition gave a text, nothing failed and no exception left main()
Succeeded(r) ==
    env[r].ok /\ env[r].text # <<>> /\ failed[r] = "none" /\ raised[r] = ""

\* a file as a reader may find it: the one from before the runs (or none), or
\* the whole rendering of the run
WholeFile(file, r) ==
    \/ file = prior[Kind(r)]
    \/ metrics[r] # <<>> /\ file = Complete(metrics[r])

\* C1: at every point of a run, its persistence step included, the final path
\* holds, and a reader of it gets, the complete previous file (or no file) or
\* the complete new rendering, never a partly written file.
C1_ReaderSeesWholeFile ==
    \A k \in Kinds :
        /\ WholeFile(fs[output_path(k)], <<k, 1>>)
        /\ scraped.kind = k => WholeFile(scraped.file, <<k, 1>>)

\* the temp file holds the text without its newline while the reader has just
\* read the complete file of the earlier run
C1_Witness ==
    \E k \in Kinds :
        /\ pc[<<k, 1>>] = "newline"
        /\ fs[temp_path(k)] = File(<<metrics[<<k, 1>>]>>)
        /\ prior[k].exists
        /\ scraped = [kind |-> k, file |-> prior[k]]

\* C2: when acquisition fails (the command exits non-zero or the input file is
\* unreadable) the run ends without a file system write: it has created no
\* directory and no temp file, and the final file is the one from before.
C2_FailedAcquisitionWritesNothing ==
    \A r \in Runs :
        Started(r) /\ Ended(r) /\ ~env[r].ok
            => /\ touched[r] = {}
               /\ fs[output_path(Kind(r))] = prior[Kind(r)]

\* the input file of the diff exporter was unreadable and the earlier file stays
C2_Witness ==
    /\ pc[<<"diff", 1>>] = "done"
    /\ env[<<"diff", 1>>].src = "file" /\ ~env[<<"diff", 1>>].ok
    /\ prior["diff"].exists
    /\ fs[output_path("diff")] = prior["diff"]

\* C3 (as claimed): in each of the three pipelines a run whose acquirer yields a
\* non-empty text and whose mkdir, temp write and rename succeed ends with the
\* final file replaced by the rendering of that text and a newline.
C3_SuccessfulRunWritesRendering ==
    \A r \in Runs :
        Started(r) /\ Ended(r) /\ env[r].ok /\ env[r].text # <<>> /\ failed[r] = "none"
            => fs[output_path(Kind(r))] = Complete(Render(Kind(r), env[r].text))

\* C4 (as claimed): no exception leaves main() for a persistence failure
\* (directory creation, temp write, rename).
C4_NoExceptionPropagates ==
    \A r \in Runs : failed[r] \in PersistenceSteps => raised[r] = ""

C6_PipelinesDoNotInterfere ==
    /\ \A r \in Runs : \A call \in touched[r] :
           call[2] \in {output_dir, output_path(Kind(r)), temp_path(Kind(r))}
    /\ \A k1 \in Kinds, k2 \in Kinds :
           k1 # k2 => {output_path(k1), temp_path(k1)}
                          \cap {output_path(k2), temp_path(k2)} = {}
    /\ \A r \in Runs :
           Started(r) /\ Ended(r)
               => fs[output_path(Kind(r))] =
                      IF Succeeded(r) THEN Complete(metrics[r]) ELSE prior[Kind(r)]

\* the diff run has replaced its file while the status run is in the middle of
\* writing its temp file
C6_Witness ==
    /\ pc[<<"diff", 1>>] = "done" /\ Succeeded(<<"diff", 1>>)
    /\ fs[output_path("diff")] = Complete(metrics[<<"diff", 1>>])
    /\ pc[<<"status", 1>>] = "newline"
    /\ fs[temp_path("status")] = File(<<metrics[<<"status", 1>>]>>)

\* a file as a reader may find it when two runs of kind k overlap: the one
\* from before the runs (or none), or the whole rendering of one of the runs
WholeFileOfEither(file, k) ==
    WholeFile(file, <<k, 1>>) \/ WholeFile(file, <<k, 2>>)

\* C12 (as claimed): when two runs of the same exporter overlap on one output
\* directory, the final file holds, and a reader of it gets, a complete
\* rendering of one of the runs (or the file from before the runs) at every
\* point, and once both runs have ended no temp file is left of a run that
\* opened one.
C12_OverlappingRunsKeepFileWhole ==
    \A k \in Kinds :
        Started(<<k, 1>>) /\ Started(<<k, 2>>)
            => /\ WholeFileOfEither(fs[output_path(k)], k)
               /\ scraped.kind = k => WholeFileOfEither(scraped.file, k)
               /\ (/\ Ended(<<k, 1>>) /\ Ended(<<k, 2>>)
                   /\ \E n \in {1, 2} : <<"open", temp_path(k)>> \in touched[<<k, n>>])
                      => ~fs[temp_path(k)].exists

====
